---- MODULE Spec2Model ----
(***************************************************************************)
(* Library management API (Express + Mongoose + MongoDB).                  *)
(*                                                                         *)
(* The model covers the book catalog (createBook, updateBook, deleteBook)  *)
(* and the borrow workflow (createBorrow) against one shared MongoDB       *)
(* store.  A createBorrow request is a multi-document transaction.  One    *)
(* step of the model is the code of the handler up to and including its    *)
(* next access to the shared store: the code between two accesses touches  *)
(* only the request's own variables.                                       *)
(*                                                                         *)
(* JavaScript numbers are not integers: zod.number() accepts 1.5.  Every   *)
(* number of the program (copies, quantity) is therefore represented as a  *)
(* multiple of 1/Unit: the model value 3 with Unit = 2 is the number 1.5.  *)
(***************************************************************************)
EXTENDS Integers, FiniteSets, Sequences, TLC

\* ------------------------------------------------------------------------
\* Bounds of the model
\* ------------------------------------------------------------------------
NReq == 2          \* createBorrow requests
MaxOps == 2        \* catalog requests (createBook, updateBook, deleteBook)
MaxNow == 2        \* ticks of the clock
MaxShelf == 11     \* books in the catalog getBooks lists

\* ------------------------------------------------------------------------
\* Representation and inputs
\* ------------------------------------------------------------------------
Unit == 2          \* the number 1 (numbers are multiples of 1/Unit)
BadId == 0         \* a string mongoose.Types.ObjectId.isValid rejects
Undefined == -1    \* the value of a field an object does not have

Req == 1..NReq
BookId == {1, 2}                        \* the ObjectIds of books
IdIn == {BadId} \cup BookId             \* ids a client sends
CopiesIn == {-1, 0, 2, 3, 4}            \* copies a client sends: -0.5 .. 2
QtyIn == {1, 2}                         \* quantities a client sends: 0.5, 1
DueIn == {0, 1}                         \* due dates a client sends
AvailIn == {"absent", "true", "false"}  \* the optional `available` of a body
TextIn == {1, 2}                        \* titles and isbns a client sends

IsInteger(n) == n % Unit = 0

NoBook == [exists |-> FALSE, copies |-> 0, available |-> FALSE,
           title |-> 0, isbn |-> 0]
NoDoc == [found |-> FALSE, copies |-> 0, available |-> FALSE]
NoInput == [book |-> BadId, quantity |-> 0, dueDate |-> 0]
NoRecord == [rid |-> 0, book |-> BadId, quantity |-> 0, dueDate |-> 0, createdAt |-> 0]
NoResp == [status |-> 0, message |-> "", data |-> NoRecord]
NoTxn == [state |-> "none", stale |-> FALSE, locked |-> FALSE,
          bookWrite |-> NoDoc, recWrite |-> {}, ended |-> FALSE]
NoHist == [created |-> FALSE, copies0 |-> 0, touched |-> FALSE]
Touched == [created |-> TRUE, copies0 |-> 0, touched |-> TRUE]
NoSummary == [calls |-> 0, status |-> 0, entries |-> {}]
Listening == [db |-> "connected", listening |-> TRUE]
NoListing == [status |-> 0, filter |-> "", sort |-> "", limit |-> "",
              data |-> <<>>]

VARIABLES
    books,      \* the books collection: ObjectId -> document
    nextBook,   \* the next ObjectId the store hands out
    borrows,    \* the borrows collection: a set of BorrowRecords
    now,        \* the clock (new Date())
    variant,    \* which createBorrow the build runs: "save" | "updateAvailability"
    pc,         \* position of every createBorrow request in its handler
    req,        \* the parsed body of every createBorrow request at work
    doc,        \* the Mongoose document `book` of every request
    txn,        \* the session/transaction of every request
    resp,       \* the response every createBorrow request sent
    ops,        \* number of catalog requests served
    hist,       \* history: copies a book was created with, whether
                \* updateBook or deleteBook touched it
    summary,    \* the answers of getBorrows since the last write to the
                \* store: how many (0, 1, or 2 for several), and the latest
    shelf,      \* the books collection as getBooks reads it: the genre of
                \* every book, in the order of creation
    listing,    \* the getBooks request and its answer
    server      \* the process: state of mongoose.connect, and whether the
                \* HTTP server listens

vars == <<books, nextBook, borrows, now, variant, pc, req, doc, txn, resp,
          ops, hist, summary, shelf, listing, server>>
storeVars == <<books, nextBook, borrows>>
reqVars == <<pc, req, doc, txn, resp>>
queryVars == <<shelf, listing>>

\* ------------------------------------------------------------------------
\* Book model
\* ------------------------------------------------------------------------

PreSaveSkipped(d) == d

\* BookSchema.pre('save'): this.available = this.copies > 0
PreSave(d) == [d EXCEPT !.available = (d.copies > 0)]

UpdateAvailabilityTakes(d, quantity) ==
    [d EXCEPT !.copies = d.copies - quantity,
              !.available = (d.copies - quantity > 0)]

\* BookSchema.methods.updateAvailability(quantity): the argument is unused;
\* the method sets available from copies and then runs save (and its hook).
UpdateAvailability(d, quantity) ==
    PreSave([d EXCEPT !.available = IF d.copies = 0 THEN FALSE ELSE TRUE])

\* bookSchema (zod): title and isbn are required strings, as author and
\* genre are; a body that leaves one out does not parse
BookTextValid(title, isbn) == title # Undefined /\ isbn # Undefined

BookBodyValidAny(copies, avail) == TRUE

\* bookSchema (zod): copies is a number >= 0, available an optional boolean
BookBodyValid(copies, avail) == copies >= 0

\* BookSchema (Mongoose), validated by save and create: copies has min 0
BookSchemaValid(d) == d.copies >= 0

\* the value of `available` a body gives, or the fallback when it has none
AvailValue(avail, fallback) ==
    IF avail = "absent" THEN fallback ELSE (avail = "true")

\* ------------------------------------------------------------------------
\* MongoDB: transactions
\* ------------------------------------------------------------------------

\* a transaction has an uncommitted write to book b
LockedByAnyBook(r, b) ==
    /\ txn[r].state = "active"
    /\ txn[r].locked

\* the open transaction of request r holds an uncommitted write to book b
LockedBy(r, b) ==
    /\ txn[r].state = "active"
    /\ txn[r].locked
    /\ req[r].book = b

LockedNever(b) == FALSE

\* an open transaction holds an uncommitted write to book b
Locked(b) == \E r \in Req : LockedBy(r, b)

OutdateNever(t, b, writer) == t

\* A durable write to book b outdates the snapshot of every open
\* transaction that has read b: a later write of such a transaction to b
\* ends in a WriteConflict.
Outdate(t, b, writer) ==
    [r \in Req |->
        IF r # writer /\ t[r].state = "active" /\ req[r].book = b
        THEN [t[r] EXCEPT !.stale = TRUE]
        ELSE t[r]]

\* the answers of getBorrows are kept until a write changes the store
Forget ==
    summary' = IF books' = books /\ borrows' = borrows
               THEN summary ELSE NoSummary

\* ------------------------------------------------------------------------
\* Initial state: an empty database, no request in flight
\* ------------------------------------------------------------------------
Init ==
    /\ books = [b \in BookId |-> NoBook]
    /\ nextBook = 1
    /\ borrows = {}
    /\ now = 0
    /\ variant \in {"save", "updateAvailability"}
    /\ pc = [r \in Req |-> "idle"]
    /\ req = [r \in Req |-> NoInput]
    /\ doc = [r \in Req |-> NoDoc]
    /\ txn = [r \in Req |-> NoTxn]
    /\ resp = [r \in Req |-> NoResp]
    /\ ops = 0
    /\ hist = [b \in BookId |-> NoHist]
    /\ summary = NoSummary
    /\ shelf = <<>>
    /\ listing = NoListing
    /\ server = Listening

\* ------------------------------------------------------------------------
\* Catalog: book.controller
\* ------------------------------------------------------------------------

\* the document Book.create saves: available defaults to true, then the
\* pre-save hook runs
NewBook(copies, avail, title, isbn) ==
    PreSave([exists |-> TRUE, copies |-> copies,
             available |-> AvailValue(avail, TRUE),
             title |-> title, isbn |-> isbn])

IsbnTakenNever(isbn, id) == FALSE

\* the unique index on isbn: another book holds the isbn
IsbnTaken(isbn, id) ==
    \E b \in BookId \ {id} : books[b].exists /\ books[b].isbn = isbn

\* createBook: bookSchema.parse, Book.create (defaults, pre-save hook,
\* validation, insert under the unique index)
createBook(copies, avail, title, isbn) ==
    /\ ops < MaxOps
    /\ ops' = ops + 1
    /\ IF \/ ~BookBodyValid(copies, avail)
          \/ ~BookTextValid(title, isbn)
          \/ ~BookSchemaValid(NewBook(copies, avail, title, isbn))
          \/ IsbnTaken(isbn, BadId)
       THEN UNCHANGED <<books, nextBook, hist>>
       ELSE /\ nextBook \in BookId
            /\ books' = [books EXCEPT ![nextBook] =
                    NewBook(copies, avail, title, isbn)]
            /\ nextBook' = nextBook + 1
            /\ hist' = [hist EXCEPT ![nextBook] =
                    [created |-> TRUE, copies0 |-> copies, touched |-> FALSE]]
    /\ UNCHANGED <<borrows, now, variant, reqVars>>
    /\ Forget
    /\ UNCHANGED <<queryVars, server>>

\* updateBook: ObjectId.isValid, bookSchema.parse,
\* Book.findByIdAndUpdate(id, parsedData, {new: true}): a $set of the parsed
\* fields, without save hooks, under the unique index.  The write waits for
\* an open transaction that has written the book.
updateBook(id, copies, avail, title, isbn) ==
    /\ ops < MaxOps
    /\ ops' = ops + 1
    /\ IF id = BadId
       THEN UNCHANGED <<books, hist, txn>>
       ELSE IF ~BookBodyValid(copies, avail) \/ ~BookTextValid(title, isbn)
       THEN UNCHANGED <<books, hist, txn>>
       ELSE IF ~books[id].exists
       THEN UNCHANGED <<books, hist, txn>>
       ELSE /\ ~Locked(id)
            /\ IF IsbnTaken(isbn, id)
               THEN UNCHANGED <<books, hist, txn>>
               ELSE /\ books' = [books EXCEPT ![id] =
                            [@ EXCEPT !.copies = copies,
                                      !.available = AvailValue(avail, @),
                                      !.title = title,
                                      !.isbn = isbn]]
                    /\ hist' = [hist EXCEPT ![id] = Touched]
                    /\ txn' = Outdate(txn, id, 0)
    /\ UNCHANGED <<nextBook, borrows, now, variant, pc, req, doc, resp>>
    /\ Forget
    /\ UNCHANGED <<queryVars, server>>

\* the status updateBook answers: 404 for an id that is not an ObjectId,
\* 400 for a body that does not parse, 404 when findByIdAndUpdate finds no
\* book, 400 for a duplicate isbn, 200 after the update
updateBookStatus(id, copies, avail, title, isbn) ==
    IF id = BadId THEN 404
    ELSE IF ~BookBodyValid(copies, avail) \/ ~BookTextValid(title, isbn)
    THEN 400
    ELSE IF ~books[id].exists THEN 404
    ELSE IF IsbnTaken(isbn, id) THEN 400
    ELSE 200

deleteBookStatusNoLookup(id) == IF id = BadId THEN 404 ELSE 200

\* the status deleteBook answers: 404 for an id that is not an ObjectId or
\* finds no book, 200 after the delete
deleteBookStatus(id) ==
    IF id = BadId THEN 404
    ELSE IF ~books[id].exists THEN 404
    ELSE 200

deleteBookCascade(id) ==
    /\ ops < MaxOps
    /\ ops' = ops + 1
    /\ IF deleteBookStatus(id) # 200
       THEN UNCHANGED <<books, borrows, hist, txn>>
       ELSE /\ ~Locked(id)
            /\ books' = [books EXCEPT ![id] = NoBook]
            /\ borrows' = {rec \in borrows : rec.book # id}
            /\ hist' = [hist EXCEPT ![id] = Touched]
            /\ txn' = Outdate(txn, id, 0)
    /\ UNCHANGED <<nextBook, now, variant, pc, req, doc, resp>>
    /\ Forget
    /\ UNCHANGED <<queryVars, server>>

\* deleteBook: ObjectId.isValid, Book.findByIdAndDelete
deleteBook(id) ==
    /\ ops < MaxOps
    /\ ops' = ops + 1
    /\ IF deleteBookStatus(id) # 200
       THEN UNCHANGED <<books, hist, txn>>
       ELSE /\ ~Locked(id)
            /\ books' = [books EXCEPT ![id] = NoBook]
            /\ hist' = [hist EXCEPT ![id] = Touched]
            /\ txn' = Outdate(txn, id, 0)
    /\ UNCHANGED <<nextBook, borrows, now, variant, pc, req, doc, resp>>
    /\ Forget
    /\ UNCHANGED <<queryVars, server>>

\* the status getBookById answers: 404 for an id that is not an ObjectId or
\* finds no book, 200 with the book
getBookByIdStatus(id) ==
    IF id = BadId THEN 404
    ELSE IF ~books[id].exists THEN 404
    ELSE 200

\* getBookById: ObjectId.isValid, Book.findById; a read outside any
\* transaction, which sees the committed book and waits for nothing
getBookById(id) ==
    /\ ops < MaxOps
    /\ ops' = ops + 1
    /\ UNCHANGED <<storeVars, now, variant, reqVars, hist, summary, queryVars, server>>

\* ------------------------------------------------------------------------
\* Borrow: borrow.controller, createBorrow
\* ------------------------------------------------------------------------

\* BorrowSchema (zod): book is a valid ObjectId, quantity >= 1, dueDate is
\* a date after new Date()
BorrowBodyValidNoDate(body) ==
    /\ body.book # BadId
    /\ body.quantity >= Unit

BorrowBodyValid(body) ==
    /\ body.book # BadId
    /\ body.quantity >= Unit
    /\ body.dueDate > now

RespondNoNotFound(status, message, data) ==
    [status |-> IF status = 404 THEN 400 ELSE status,
     message |-> message, data |-> data]

RespondOneMessage(status, message, data) ==
    [status |-> status,
     message |-> IF status = 400 THEN "Error creating borrow record"
                 ELSE message,
     data |-> data]

Respond(status, message, data) ==
    [status |-> status, message |-> message, data |-> data]

\* the catch block of createBorrow.  The documented handler aborts the
\* transaction and ends the session; the updateAvailability handler does
\* neither, it only answers.
CatchBlock(t, v) ==
    IF v = "save"
    THEN [t EXCEPT !.state = "aborted", !.locked = FALSE, !.ended = TRUE,
                   !.stale = FALSE, !.bookWrite = NoDoc, !.recWrite = {}]
    ELSE t

\* a write of a transaction failed on the server: the server has aborted
\* the transaction and dropped its uncommitted writes
ServerAbort(t) ==
    [t EXCEPT !.state = "failed", !.locked = FALSE, !.stale = FALSE,
              !.bookWrite = NoDoc, !.recWrite = {}]

\* the early exits: session.abortTransaction() and return
AbortAndReturn(t) ==
    [t EXCEPT !.state = "aborted", !.locked = FALSE, !.stale = FALSE,
              !.bookWrite = NoDoc, !.recWrite = {}]

\* the check `if (!book)` after findById
NotFoundNever(book) == FALSE

NotFound(book) == ~book.exists

InsufficientCopiesOnly(book, quantity) == book.copies < quantity

\* the inventory check of createBorrow
Insufficient(book, quantity) == ~book.available \/ book.copies < quantity

\* requests are numbered in the order in which they arrive
Arrives(r) ==
    /\ pc[r] = "idle"
    /\ \A o \in Req : o < r => pc[o] # "idle"

\* startSession, startTransaction, BorrowSchema.parse(req.body),
\* Book.findById(bookId).session(session), the two checks and
\* book.copies -= quantity
FindBook(r, body) ==
    /\ Arrives(r)
    /\ LET started == [NoTxn EXCEPT !.state = "started"]
           t == [NoTxn EXCEPT !.state = "active"]
           book == books[body.book]
       IN IF ~BorrowBodyValid(body)
          THEN /\ txn' = [txn EXCEPT ![r] = CatchBlock(started, variant)]
               /\ resp' = [resp EXCEPT ![r] =
                       Respond(400, "Validation failed", NoRecord)]
               /\ pc' = [pc EXCEPT ![r] = "done"]
               /\ UNCHANGED <<req, doc>>
          ELSE IF NotFound(book)
          THEN /\ txn' = [txn EXCEPT ![r] = AbortAndReturn(t)]
               /\ resp' = [resp EXCEPT ![r] =
                       Respond(404, "Book not found", NoRecord)]
               /\ pc' = [pc EXCEPT ![r] = "done"]
               /\ UNCHANGED <<req, doc>>
          ELSE IF Insufficient(book, body.quantity)
          THEN /\ txn' = [txn EXCEPT ![r] = AbortAndReturn(t)]
               /\ resp' = [resp EXCEPT ![r] =
                       Respond(400, "Requested quantity not available", NoRecord)]
               /\ pc' = [pc EXCEPT ![r] = "done"]
               /\ UNCHANGED <<req, doc>>
          ELSE /\ txn' = [txn EXCEPT ![r] = t]
               /\ doc' = [doc EXCEPT ![r] =
                       [found |-> TRUE, copies |-> book.copies - body.quantity,
                        available |-> book.available]]
               /\ pc' = [pc EXCEPT ![r] = "save"]
               /\ req' = [req EXCEPT ![r] = body]
               /\ UNCHANGED resp
    /\ UNCHANGED <<storeVars, now, variant, ops, hist, summary, queryVars, server>>

WriteConflictOff(r) == FALSE

\* the update a save sends inside the transaction fails with a
\* WriteConflict when the book changed after the transaction's snapshot or
\* another open transaction has written it
WriteConflict(r) ==
    \/ txn[r].stale
    \/ \E o \in Req \ {r} : LockedBy(o, req[r].book)

\* the save of document d by request r: schema validation (copies >= 0),
\* then the update; a rejected save goes to the catch block
WriteBook(r, d) ==
    /\ pc[r] = "save"
    /\ IF WriteConflict(r) \/ ~BookSchemaValid(d)
       THEN /\ txn' = [txn EXCEPT ![r] = CatchBlock(ServerAbort(@), variant)]
            /\ resp' = [resp EXCEPT ![r] =
                    Respond(400, "Error creating borrow record", NoRecord)]
            /\ pc' = [pc EXCEPT ![r] = "done"]
            /\ doc' = [doc EXCEPT ![r] = NoDoc]
            /\ req' = [req EXCEPT ![r] = NoInput]
       ELSE /\ txn' = [txn EXCEPT ![r].locked = TRUE, ![r].bookWrite = d]
            /\ doc' = [doc EXCEPT ![r] = d]
            /\ pc' = [pc EXCEPT ![r] = "insert"]
            /\ UNCHANGED <<req, resp>>
    /\ UNCHANGED <<storeVars, now, variant, ops, hist, summary, queryVars, server>>

\* book.save({ session }): pre-save hook, validation, update
SaveBook(r) ==
    /\ variant = "save"
    /\ WriteBook(r, PreSave(doc[r]))

\* book.updateAvailability(quantity): sets available, then this.save()
\* with the session the document was loaded with
SaveByUpdateAvailability(r) ==
    /\ variant = "updateAvailability"
    /\ WriteBook(r, UpdateAvailability(doc[r], req[r].quantity))

NewRecordUnit(r, body) ==
    [rid |-> r, book |-> body.book, quantity |-> Unit,
     dueDate |-> body.dueDate, createdAt |-> now]

\* the BorrowRecord createBorrow builds: Borrow.create([{book, quantity,
\* dueDate}], { session })
NewRecord(r, body) ==
    [rid |-> r, book |-> body.book, quantity |-> body.quantity,
     dueDate |-> body.dueDate, createdAt |-> now]

CommittedBooksDropped(r) == books

CommittedBooksWhole(r) ==
    IF txn[r].locked
    THEN [books EXCEPT ![req[r].book] =
            [@ EXCEPT !.copies = txn[r].bookWrite.copies,
                      !.available = txn[r].bookWrite.available,
                      !.title = Undefined]]
    ELSE books

\* the store after the transaction of r commits: the $set of the saved
\* fields and the inserted records become durable together
CommittedBooks(r) ==
    IF txn[r].locked
    THEN [books EXCEPT ![req[r].book] =
            [@ EXCEPT !.copies = txn[r].bookWrite.copies,
                      !.available = txn[r].bookWrite.available]]
    ELSE books

CommittedBorrowsOnly(r, recs) == recs

CommittedBorrows(r, recs) == borrows \cup recs

CommittedTxn(r) ==
    [Outdate(txn, req[r].book, r) EXCEPT
        ![r].state = "committed", ![r].locked = FALSE, ![r].stale = FALSE,
        ![r].bookWrite = NoDoc, ![r].recWrite = {}]

\* Borrow.create(...), session.commitTransaction(), session.endSession(),
\* res.status(201)
CommitBorrow(r) ==
    /\ pc[r] = "insert"
    /\ books' = CommittedBooks(r)
    /\ borrows' = CommittedBorrows(r, {NewRecord(r, req[r])})
    /\ txn' = [CommittedTxn(r) EXCEPT ![r].ended = TRUE]
    /\ resp' = [resp EXCEPT ![r] =
            Respond(201, "Book borrowed successfully", NewRecord(r, req[r]))]
    /\ pc' = [pc EXCEPT ![r] = "done"]
    /\ doc' = [doc EXCEPT ![r] = NoDoc]
    /\ req' = [req EXCEPT ![r] = NoInput]
    /\ Forget
    /\ UNCHANGED <<queryVars, server>>
    /\ UNCHANGED <<nextBook, now, variant, ops, hist>>

\* ------------------------------------------------------------------------
\* Persistence failures inside createBorrow
\* ------------------------------------------------------------------------

\* session.abortTransaction() throws once commitTransaction() was called
AbortThrows(t) == t.state \in {"committed", "commitFailed"}

\* the catch block after an await failed, in the handler of variant v: t is
\* the transaction the failure left, answer the response sent so far.  It
\* aborts and ends the session (documented handler) and answers 400; when
\* abortTransaction itself throws, the handler ends without an answer
CatchOutcome(t, answer, v) ==
    IF v = "save" /\ AbortThrows(t)
    THEN [txn |-> t, resp |-> answer]
    ELSE [txn |-> CatchBlock(t, v),
          resp |-> Respond(400, "Error creating borrow record", NoRecord)]

CatchAfterFailure(r, t) ==
    /\ pc' = [pc EXCEPT ![r] = "done"]
    /\ doc' = [doc EXCEPT ![r] = NoDoc]
    /\ req' = [req EXCEPT ![r] = NoInput]
    /\ txn' = [t EXCEPT ![r] = CatchOutcome(t[r], resp[r], variant).txn]
    /\ resp' = [resp EXCEPT ![r] = CatchOutcome(t[r], resp[r], variant).resp]

\* book.save / this.save rejects for a reason other than a conflict (the
\* connection drops); the transaction is still open on the server
SaveFails(r) ==
    /\ pc[r] = "save"
    /\ CatchAfterFailure(r, txn)
    /\ UNCHANGED <<storeVars, now, variant, ops, hist, summary, queryVars, server>>

\* Borrow.create rejects: the uncommitted write of the book is still held
InsertFails(r) ==
    /\ pc[r] = "insert"
    /\ CatchAfterFailure(r, txn)
    /\ UNCHANGED <<storeVars, now, variant, ops, hist, summary, queryVars, server>>

\* session.commitTransaction() rejects.  The server either dropped the
\* transaction or had already applied it when the reply was lost.
CommitFails(r, applied) ==
    /\ pc[r] = "insert"
    /\ IF applied
       THEN /\ books' = CommittedBooks(r)
            /\ borrows' = CommittedBorrows(r, {NewRecord(r, req[r])})
            /\ CatchAfterFailure(r, CommittedTxn(r))
       ELSE /\ UNCHANGED <<books, borrows>>
            /\ CatchAfterFailure(r, [txn EXCEPT ![r] =
                    [ServerAbort(@) EXCEPT !.state = "commitFailed"]])
    /\ Forget
    /\ UNCHANGED <<queryVars, server>>
    /\ UNCHANGED <<nextBook, now, variant, ops, hist>>

\* the server aborts a transaction its handler abandoned
\* (transactionLifetimeLimitSeconds)
TxnExpire(r) ==
    /\ pc[r] = "done"
    /\ txn[r].state = "active"
    /\ txn' = [txn EXCEPT ![r] = ServerAbort(@)]
    /\ UNCHANGED <<storeVars, now, variant, pc, req, doc, resp, ops, hist, summary, queryVars, server>>

\* ------------------------------------------------------------------------
\* The first createBorrow of the repository: Borrow.create(req.body)
\* ------------------------------------------------------------------------

\* Mongoose casts the raw body with the Borrow schema: book must be an
\* ObjectId, quantity a number, dueDate a date
LegacyBodyValid(body) == body.book # BadId

LegacyCreateBorrow(r, body) ==
    /\ Arrives(r)
    /\ pc' = [pc EXCEPT ![r] = "done"]
    /\ IF LegacyBodyValid(body)
       THEN /\ borrows' = borrows \cup {NewRecord(r, body)}
            /\ resp' = [resp EXCEPT ![r] = Respond(201, "", NewRecord(r, body))]
       ELSE /\ resp' = [resp EXCEPT ![r] =
                    Respond(400, "Error creating borrow record", NoRecord)]
            /\ UNCHANGED borrows
    /\ UNCHANGED <<books, nextBook, now, variant, req, doc, txn, ops, hist>>
    /\ Forget
    /\ UNCHANGED <<queryVars, server>>

\* ------------------------------------------------------------------------
\* Borrow summary: borrow.controller, getBorrows
\* ------------------------------------------------------------------------
BorrowedOf(b) == {rec \in borrows : rec.book = b}

RECURSIVE SumQuantity(_)
SumQuantity(S) ==
    IF S = {} THEN 0
    ELSE LET rec == CHOOSE x \in S : TRUE
         IN rec.quantity + SumQuantity(S \ {rec})

\* the count of answers since the last write: none, one, several
Again(calls) == IF calls = 0 THEN 1 ELSE 2

\* $group: one group for every book id the records reference
Groups == {rec.book : rec \in borrows}

ResolvedAll(groups) == groups

\* $lookup and $unwind: a group whose id resolves to no book is dropped
Resolved(groups) == {b \in groups : books[b].exists}

\* $project: the title and isbn of the book, and the summed quantity
Entry(b) ==
    [group |-> b,
     book |-> [title |-> books[b].title, isbn |-> books[b].isbn],
     totalQuantity |-> SumQuantity(BorrowedOf(b))]

SummarizeFirstOnly ==
    IF summary.calls = 0 THEN {Entry(b) : b \in Resolved(Groups)} ELSE {}

\* Borrow.aggregate([$group, $lookup, $unwind, $project])
Summarize == {Entry(b) : b \in Resolved(Groups)}

getBorrowsLocking ==
    /\ summary' = [calls |-> Again(summary.calls), status |-> 200,
                   entries |-> Summarize]
    /\ txn' = [r \in Req |->
                IF txn[r].state = "active"
                THEN [txn[r] EXCEPT !.stale = TRUE] ELSE txn[r]]
    /\ UNCHANGED <<books, nextBook, borrows, now, variant, pc, req, doc, resp,
                   ops, hist, queryVars, server>>

\* getBorrows: the aggregation, answered with 200
getBorrows ==
    /\ summary' = [calls |-> Again(summary.calls), status |-> 200,
                   entries |-> Summarize]
    /\ UNCHANGED <<books, nextBook, borrows, now, variant, reqVars, ops, hist,
                   queryVars, server>>

\* the first getBorrows of the repository: Borrow.find(), the records as
\* stored, which have no totalQuantity and whose book is an ObjectId
RawEntry(rec) ==
    [group |-> rec.rid,
     book |-> [title |-> Undefined, isbn |-> Undefined],
     totalQuantity |-> Undefined]

LegacyGetBorrows ==
    /\ summary' = [calls |-> Again(summary.calls), status |-> 200,
                   entries |-> {RawEntry(rec) : rec \in borrows}]
    /\ UNCHANGED <<books, nextBook, borrows, now, variant, reqVars, ops, hist,
                   queryVars, server>>

\* ------------------------------------------------------------------------
\* Book list: book.controller, getBooks
\* ------------------------------------------------------------------------

\* the genres getBooks accepts as a filter
ValidGenres ==
    {"FICTION", "NON_FICTION", "SCIENCE", "HISTORY", "BIOGRAPHY", "FANTASY"}

\* the query strings a client sends; "absent" is a parameter left out
FilterIn == {"absent", "FICTION", "fiction", "Science", "fantasy", "poetry"}
SortIn == {"absent", "asc"}
LimitIn == {"absent", "0", "1", "2", "11", "2.5", "abc"}
GenreIn == {"FICTION", "SCIENCE"}          \* the genres of the books stored

ToUpperCaseSame(s) == s

\* String.prototype.toUpperCase on the filters above
ToUpperCase(s) ==
    CASE s = "fiction" -> "FICTION"
      [] s = "Science" -> "SCIENCE"
      [] s = "fantasy" -> "FANTASY"
      [] s = "poetry" -> "POETRY"
      [] OTHER -> s

\* filterObj: the genre to match, "any" for an empty filter object
FilterObj(filter) ==
    IF filter # "absent" /\ ToUpperCase(filter) \in ValidGenres
    THEN ToUpperCase(filter)
    ELSE "any"

\* parseInt on the limits above: the leading integer of the text, NaN when
\* there is none
ParseInt(s) ==
    CASE s = "0" -> [nan |-> FALSE, n |-> 0]
      [] s = "1" -> [nan |-> FALSE, n |-> 1]
      [] s = "2" -> [nan |-> FALSE, n |-> 2]
      [] s = "2.5" -> [nan |-> FALSE, n |-> 2]
      [] s = "10" -> [nan |-> FALSE, n |-> 10]
      [] s = "11" -> [nan |-> FALSE, n |-> 11]
      [] OTHER -> [nan |-> TRUE, n |-> 0]

\* limit = "10" by default; limitNum = parseInt(limit) || 10, where NaN and
\* 0 are falsy
LimitNum(limit) ==
    LET p == ParseInt(IF limit = "absent" THEN "10" ELSE limit)
    IN  IF p.nan \/ p.n = 0 THEN 10 ELSE p.n

\* sort = "desc" by default; sortDirection = sort === "asc" ? 1 : -1
SortDirection(sort) == IF sort = "asc" THEN 1 ELSE -1

\* Book.find(filterObj): the books (by position on the shelf) that match
Find(genre) ==
    {i \in 1..Len(shelf) : genre = "any" \/ shelf[i] = genre}

RECURSIVE Sorted(_, _)
\* .sort({createdAt: direction}): the books of S by creation time
Sorted(S, direction) ==
    IF S = {} THEN <<>>
    ELSE LET first == CHOOSE i \in S :
                        \A o \in S : IF direction = 1 THEN i <= o ELSE i >= o
         IN  <<first>> \o Sorted(S \ {first}, direction)

\* .limit(n) with n > 0: the first n documents
Limit(docs, n) ==
    SubSeq(docs, 1, IF n < Len(docs) THEN n ELSE Len(docs))

\* getBooks: 200 with the books found.  The shelf does not change here, so
\* one request per behaviour shows every answer.
getBooks(filter, sort, limit) ==
    /\ listing = NoListing
    /\ listing' = [status |-> 200, filter |-> filter, sort |-> sort,
                   limit |-> limit,
                   data |-> Limit(Sorted(Find(FilterObj(filter)),
                                         SortDirection(sort)),
                                  LimitNum(limit))]
    /\ UNCHANGED <<books, nextBook, borrows, now, variant, reqVars, ops, hist,
                   summary, shelf, server>>

\* ------------------------------------------------------------------------
\* The system
\* ------------------------------------------------------------------------
BodyIn == [book : IdIn, quantity : QtyIn, dueDate : DueIn]

Catalog ==
    \/ \E c \in CopiesIn, a \in AvailIn : createBook(c, a, nextBook, nextBook)
    \/ \E id \in IdIn, c \in CopiesIn, a \in AvailIn : updateBook(id, c, a, id, id)
    \/ \E id \in IdIn : deleteBook(id)

Borrow ==
    \/ \E r \in Req, body \in BodyIn : FindBook(r, body)
    \/ \E r \in Req : SaveBook(r)
    \/ \E r \in Req : SaveByUpdateAvailability(r)
    \/ \E r \in Req : CommitBorrow(r)

Next == Catalog \/ Borrow

Spec == Init /\ [][Next]_vars

\* the system with persistence failures
Faults ==
    \/ \E r \in Req : SaveFails(r)
    \/ \E r \in Req : InsertFails(r)
    \/ \E r \in Req, applied \in BOOLEAN : CommitFails(r, applied)
    \/ \E r \in Req : TxnExpire(r)

NextFault == Next \/ Faults

SpecFault == Init /\ [][NextFault]_vars

\* the system with the first createBorrow
InitLegacy ==
    /\ books = [b \in BookId |-> NoBook]
    /\ nextBook = 1
    /\ borrows = {}
    /\ now = 0
    /\ variant = "legacy"
    /\ pc = [r \in Req |-> "idle"]
    /\ req = [r \in Req |-> NoInput]
    /\ doc = [r \in Req |-> NoDoc]
    /\ txn = [r \in Req |-> NoTxn]
    /\ resp = [r \in Req |-> NoResp]
    /\ ops = 0
    /\ hist = [b \in BookId |-> NoHist]
    /\ summary = NoSummary
    /\ shelf = <<>>
    /\ listing = NoListing
    /\ server = Listening

NextLegacy ==
    \/ Catalog
    \/ \E r \in Req, body \in BodyIn : LegacyCreateBorrow(r, body)
    \/ LegacyGetBorrows

SpecLegacy == InitLegacy /\ [][NextLegacy]_vars

\* ------------------------------------------------------------------------
\* Scenarios: a stocked catalog and only createBorrow requests
\* ------------------------------------------------------------------------
StockIn == {c \in CopiesIn : BookBodyValid(c, "absent")}

\* a catalog after some createBook and deleteBook requests: every id was
\* handed out, every book is as created or deleted
Stocked ==
    /\ \E stock \in [BookId -> StockIn \cup {-1}] :
        /\ books = [b \in BookId |->
                IF stock[b] < 0 THEN NoBook
                ELSE NewBook(stock[b], "absent", b, b)]
        /\ hist = [b \in BookId |->
                IF stock[b] < 0 THEN Touched
                ELSE [created |-> TRUE, copies0 |-> stock[b], touched |-> FALSE]]
    /\ nextBook = 3
    /\ borrows = {}
    /\ now = 0
    /\ variant \in {"save", "updateAvailability"}
    /\ pc = [r \in Req |-> "idle"]
    /\ req = [r \in Req |-> NoInput]
    /\ doc = [r \in Req |-> NoDoc]
    /\ txn = [r \in Req |-> NoTxn]
    /\ resp = [r \in Req |-> NoResp]
    /\ ops = 0
    /\ summary = NoSummary
    /\ shelf = <<>>
    /\ listing = NoListing

\* ... served by a process that connected and listens
InitStocked == Stocked /\ server = Listening

\* concurrent requests for one copy of book 1
RaceBody == [book |-> 1, quantity |-> Unit, dueDate |-> 1]

NextRace ==
    \/ \E r \in Req : FindBook(r, RaceBody)
    \/ \E r \in Req : SaveBook(r)
    \/ \E r \in Req : SaveByUpdateAvailability(r)
    \/ \E r \in Req : CommitBorrow(r)

SpecRace == InitStocked /\ [][NextRace]_vars

\* requests that run one at a time, with more inputs
QtyWide == {1, 2, 3, 4}
DueWide == {0, 1, 2}
BodyWide == [book : IdIn, quantity : QtyWide, dueDate : DueWide]

NoneInFlight == \A o \in Req : pc[o] \in {"idle", "done"}

FindBookAlone(r, body) ==
    /\ NoneInFlight
    /\ FindBook(r, body)

NextSolo ==
    \/ \E r \in Req, body \in BodyWide : FindBookAlone(r, body)
    \/ \E r \in Req : SaveBook(r)
    \/ \E r \in Req : SaveByUpdateAvailability(r)
    \/ \E r \in Req : CommitBorrow(r)

SpecSolo == InitStocked /\ [][NextSolo]_vars

\* the catalog, requests that run one at a time, and getBorrows
NextSummary ==
    \/ Catalog
    \/ \E r \in Req, body \in BodyIn : FindBookAlone(r, body)
    \/ \E r \in Req : SaveBook(r)
    \/ \E r \in Req : SaveByUpdateAvailability(r)
    \/ \E r \in Req : CommitBorrow(r)
    \/ getBorrows

\* a catalog after one createBook: book 1 with two copies to borrow
InitShelf ==
    /\ \E c \in {n \in StockIn : n = 2 * Unit} :
        /\ books = [b \in BookId |->
                IF b = 1 THEN NewBook(c, "absent", b, b) ELSE NoBook]
        /\ hist = [b \in BookId |->
                IF b = 1
                THEN [created |-> TRUE, copies0 |-> c, touched |-> FALSE]
                ELSE NoHist]
    /\ nextBook = 2
    /\ borrows = {}
    /\ now = 0
    /\ variant \in {"save", "updateAvailability"}
    /\ pc = [r \in Req |-> "idle"]
    /\ req = [r \in Req |-> NoInput]
    /\ doc = [r \in Req |-> NoDoc]
    /\ txn = [r \in Req |-> NoTxn]
    /\ resp = [r \in Req |-> NoResp]
    /\ ops = 0
    /\ summary = NoSummary
    /\ shelf = <<>>
    /\ listing = NoListing
    /\ server = Listening

SpecSummary == InitShelf /\ [][NextSummary]_vars

\* concurrent requests with persistence failures on a stocked catalog
NextBorrowFault == Borrow \/ Faults

SpecBorrowFault == InitStocked /\ [][NextBorrowFault]_vars

\* time passes
Tick ==
    /\ now < MaxNow
    /\ now' = now + 1
    /\ UNCHANGED <<books, nextBook, borrows, variant, reqVars, ops, hist,
                   summary, queryVars, server>>

\* requests that run one at a time while the clock advances
NextClock ==
    \/ \E r \in Req, body \in BodyWide : FindBookAlone(r, body)
    \/ \E r \in Req : SaveBook(r)
    \/ \E r \in Req : SaveByUpdateAvailability(r)
    \/ \E r \in Req : CommitBorrow(r)
    \/ Tick

SpecClock == InitStocked /\ [][NextClock]_vars

\* the catalog alone, with any title and isbn
NextCatalog ==
    \/ \E c \in CopiesIn, a \in AvailIn, t \in TextIn, i \in TextIn :
            createBook(c, a, t, i)
    \/ \E id \in IdIn, c \in CopiesIn, a \in AvailIn, t \in TextIn, i \in TextIn :
            updateBook(id, c, a, t, i)
    \/ \E id \in IdIn : deleteBook(id)

SpecCatalog == Init /\ [][NextCatalog]_vars

\* updateBook on a stocked catalog, with bodies that may leave title and
\* isbn out
TextOpt == TextIn \cup {Undefined}

NextPartial ==
    \E id \in IdIn, c \in CopiesIn, a \in AvailIn, t \in TextOpt, i \in TextOpt :
        updateBook(id, c, a, t, i)

SpecPartial == InitStocked /\ [][NextPartial]_vars

\* the three requests that take a book id, on a stocked catalog
NextLookup ==
    \/ NextPartial
    \/ \E id \in IdIn : deleteBook(id)
    \/ \E id \in IdIn : getBookById(id)

SpecLookup == InitStocked /\ [][NextLookup]_vars

\* concurrent requests, no two of them at work on the same book
FindBookApart(r, body) ==
    /\ \A o \in Req \ {r} :
            pc[o] \in {"save", "insert"} => req[o].book # body.book
    /\ FindBook(r, body)

NextApart ==
    \/ \E r \in Req, body \in BodyIn : FindBookApart(r, body)
    \/ \E r \in Req : SaveBook(r)
    \/ \E r \in Req : SaveByUpdateAvailability(r)
    \/ \E r \in Req : CommitBorrow(r)

SpecApart == InitStocked /\ [][NextApart]_vars

\* concurrent requests and the three read requests
NextRead ==
    \/ Borrow
    \/ getBorrows
    \/ \E id \in IdIn : getBookById(id)
    \/ getBooks("absent", "absent", "absent")

SpecRead == InitShelf /\ [][NextRead]_vars

\* concurrent requests while updateBook gives books any title
NextRetitle ==
    \/ \E id \in BookId, t \in TextIn :
            updateBook(id, 2 * Unit, "absent", t, id)
    \/ Borrow

SpecRetitle == InitStocked /\ [][NextRetitle]_vars

\* getBooks on a catalog of up to MaxShelf books
Shelves == UNION {[1..n -> GenreIn] : n \in 0..MaxShelf}

InitQuery ==
    /\ shelf \in Shelves
    /\ listing = NoListing
    /\ server = Listening
    /\ books = [b \in BookId |-> NoBook]
    /\ nextBook = 1
    /\ borrows = {}
    /\ now = 0
    /\ variant = "save"
    /\ pc = [r \in Req |-> "idle"]
    /\ req = [r \in Req |-> NoInput]
    /\ doc = [r \in Req |-> NoDoc]
    /\ txn = [r \in Req |-> NoTxn]
    /\ resp = [r \in Req |-> NoResp]
    /\ ops = 0
    /\ hist = [b \in BookId |-> NoHist]
    /\ summary = NoSummary

NextQuery ==
    \E filter \in FilterIn, sort \in SortIn, limit \in LimitIn :
        getBooks(filter, sort, limit)

SpecQuery == InitQuery /\ [][NextQuery]_vars

\* ------------------------------------------------------------------------
\* Start of the process (server.ts)
\* ------------------------------------------------------------------------

DbState == {"exited", "connecting", "connected", "failed"}

\* the state right after the module body has run: mongoose.connect was
\* called and is pending; server.ts has left with exit code 1 before that
\* when MONGO_URI is not set (dist/server.js falls back to a local URI)
Starting == [db |-> "connecting", listening |-> FALSE]
Exited == [db |-> "exited", listening |-> FALSE]

CanListenAtOnce(s) == s.db # "exited"

\* app.listen is called in the then-callback of mongoose.connect, nowhere else
CanListen(s) == s.db = "connected"

\* the promise of mongoose.connect resolves
ConnectResolves ==
    /\ server.db = "connecting"
    /\ server' = [server EXCEPT !.db = "connected"]
    /\ UNCHANGED <<books, nextBook, borrows, now, variant, pc, req, doc, txn,
                   resp, ops, hist, summary, shelf, listing>>

\* the promise rejects: the catch callback logs the error, nothing else
ConnectRejects ==
    /\ server.db = "connecting"
    /\ server' = [server EXCEPT !.db = "failed"]
    /\ UNCHANGED <<books, nextBook, borrows, now, variant, pc, req, doc, txn,
                   resp, ops, hist, summary, shelf, listing>>

\* the then-callback: log, app.listen(PORT)
Listen ==
    /\ CanListen(server)
    /\ ~server.listening
    /\ server' = [server EXCEPT !.listening = TRUE]
    /\ UNCHANGED <<books, nextBook, borrows, now, variant, pc, req, doc, txn,
                   resp, ops, hist, summary, shelf, listing>>

\* a request reaches the router only through a listening socket
Served(r, body) == server.listening /\ FindBook(r, body)

InitStart == Stocked /\ server \in {Starting, Exited}

NextStart ==
    \/ ConnectResolves
    \/ ConnectRejects
    \/ Listen
    \/ \E r \in Req : Served(r, RaceBody)
    \/ \E r \in Req : SaveBook(r)
    \/ \E r \in Req : SaveByUpdateAvailability(r)
    \/ \E r \in Req : CommitBorrow(r)

SpecStart == InitStart /\ [][NextStart]_vars

TypeOK ==
    /\ server \in [db : DbState, listening : BOOLEAN]
    /\ nextBook \in 1..3
    /\ ops \in 0..MaxOps
    /\ \A b \in BookId : books[b].exists => b < nextBook

\* ------------------------------------------------------------------------
\* Properties
\* ------------------------------------------------------------------------
AllDone == \A r \in Req : pc[r] = "done"
Succeeded == {r \in Req : resp[r].status = 201}
Refused == {r \in Req : /\ resp[r].status = 400
                        /\ resp[r].message = "Requested quantity not available"}
AsCreated(b) == hist[b].created /\ ~hist[b].touched

\* C1: when NReq concurrent requests for one copy each have run against a
\* book created with k < NReq copies, exactly k of them succeeded, the other
\* NReq - k were refused for insufficient inventory, and the book has 0
\* copies.
C1_ExactlyKSucceed ==
    \A k \in 1..(NReq - 1) :
        (AllDone /\ AsCreated(1) /\ hist[1].copies0 = k * Unit) =>
            /\ Cardinality(Succeeded) = k
            /\ Cardinality(Refused) = NReq - k
            /\ books[1].copies = 0

\* C2: two requests against the same book that together ask for more
\* copies than the book has never both succeed, however their steps
\* interleave.
C2_NeverBothSucceed ==
    \A r1, r2 \in Req :
        (/\ r1 # r2
         /\ resp[r1].status = 201
         /\ resp[r2].status = 201
         /\ resp[r1].data.book = resp[r2].data.book
         /\ AsCreated(resp[r1].data.book)) =>
            resp[r1].data.quantity + resp[r2].data.quantity
                <= hist[resp[r1].data.book].copies0

\* two requests raced for a book that had not enough for both: one
\* succeeded, the other lost its write
C2Witness ==
    \E r1, r2 \in Req :
        /\ resp[r1].status = 201
        /\ resp[r2].message = "Error creating borrow record"
        /\ AsCreated(1)
        /\ hist[1].copies0 < 2 * Unit

\* C3 as stated: in every durable state the copies of every book are an
\* integer >= 0.
C3_CopiesIntegerNonNegative ==
    \A b \in BookId :
        books[b].exists => IsInteger(books[b].copies) /\ books[b].copies >= 0

\* C3: in every durable state the copies of every book are a number >= 0,
\* whatever createBook, updateBook, deleteBook and createBorrow did.
C3_CopiesNonNegative ==
    \A b \in BookId : books[b].exists => books[b].copies >= 0

\* a borrow took the last copies of a book
C3Witness ==
    \E b \in BookId :
        /\ books[b].exists
        /\ books[b].copies = 0
        /\ AsCreated(b)
        /\ BorrowedOf(b) # {}

\* C4: a request that fails because a concurrent createBorrow took the
\* copies it needed answers 'Requested quantity not available' and no
\* other kind of error.
C4_LoserSeesInsufficient ==
    \A r \in Req :
        (/\ pc[r] = "done"
         /\ resp[r].status # 201
         /\ AsCreated(1)
         /\ hist[1].copies0 >= Unit
         /\ books[1].copies < Unit
         /\ BorrowedOf(1) # {}) =>
            resp[r].message = "Requested quantity not available"

\* C5: the decrement of a book and the insertion of the BorrowRecord are
\* atomic: every step of a createBorrow, failed saves, inserts and commits
\* included, either leaves books and records as they were or takes the
\* quantity of exactly one new record from the copies of its book.
C5_DecrementAndRecordAtomic ==
    [][ops' = ops =>
        /\ borrows \subseteq borrows'
        /\ Cardinality(borrows' \ borrows) <= 1
        /\ \A b \in BookId :
            LET added == {rec \in borrows' \ borrows : rec.book = b}
            IN  /\ books'[b].exists = books[b].exists
                /\ books'[b].copies =
                       books[b].copies - SumQuantity(added)]_vars

\* a commit failed after the book was saved and left no record, while
\* another request borrowed
C5Witness ==
    \E r1, r2 \in Req :
        /\ pc[r1] = "done"
        /\ txn[r1].state = "commitFailed"
        /\ \A rec \in borrows : rec.rid # r1
        /\ resp[r2].status = 201
        /\ resp[r2].data \in borrows

\* C6: a request that runs alone for quantity q of an existing, available
\* book with copies c >= q goes through: it passes the checks, its save is
\* accepted, and it ends with 201, copies c - q and exactly one new record,
\* the one returned, with the book id, q and the requested dueDate.
C6_SoloBorrowSucceeds ==
    [][\A r \in Req :
        /\ \A body \in BodyWide :
            (/\ FindBookAlone(r, body)
             /\ BorrowBodyValid(body)
             /\ books[body.book].exists
             /\ books[body.book].available
             /\ body.quantity <= books[body.book].copies) =>
                /\ pc'[r] = "save"
                /\ req'[r] = body
                /\ doc'[r].copies = books[body.book].copies - body.quantity
        /\ (pc[r] = "save" /\ pc'[r] # "save") =>
                /\ pc'[r] = "insert"
                /\ doc'[r].copies = doc[r].copies
        /\ (pc[r] = "insert" /\ pc'[r] # "insert") =>
                /\ resp'[r].status = 201
                /\ resp'[r].data.book = req[r].book
                /\ resp'[r].data.quantity = req[r].quantity
                /\ resp'[r].data.dueDate = req[r].dueDate
                /\ resp'[r].data \notin borrows
                /\ borrows' = borrows \cup {resp'[r].data}
                /\ doc[r].copies = books[req[r].book].copies - req[r].quantity
                /\ books'[req[r].book].copies = doc[r].copies]_vars

\* a lone request borrowed part of a book
C6Witness ==
    \E r \in Req :
        /\ resp[r].status = 201
        /\ borrows = {resp[r].data}
        /\ resp[r].data.quantity > Unit
        /\ books[resp[r].data.book].copies =
               hist[resp[r].data.book].copies0 - resp[r].data.quantity
        /\ books[resp[r].data.book].copies > 0

\* C7: a request for more than the copies of an existing book, or for a
\* book whose available is false whatever its copies, is refused with
\* 'Requested quantity not available' and changes no book and no record.
C7_InsufficientRefused ==
    [][\A r \in Req, body \in BodyIn :
        (/\ FindBook(r, body)
         /\ BorrowBodyValid(body)
         /\ books[body.book].exists
         /\ (body.quantity > books[body.book].copies
                \/ ~books[body.book].available)) =>
            /\ pc'[r] = "done"
            /\ resp'[r].status = 400
            /\ resp'[r].message = "Requested quantity not available"
            /\ books' = books
            /\ borrows' = borrows]_vars

\* a request was refused while a book with copies for it had available
\* false
C7Witness ==
    \E r \in Req, b \in BookId :
        /\ resp[r].status = 400
        /\ resp[r].message = "Requested quantity not available"
        /\ books[b].exists
        /\ ~books[b].available
        /\ books[b].copies >= Unit
        /\ \A o \in BookId \ {b} : ~books[o].exists
        /\ borrows = {}

\* C8: a request whose well-formed book id resolves to no book, never
\* created or deleted, answers 404 and changes no book and no record.
C8_UnknownBookNotFound ==
    [][\A r \in Req, body \in BodyIn :
        (/\ FindBook(r, body)
         /\ BorrowBodyValid(body)
         /\ ~books[body.book].exists) =>
            /\ pc'[r] = "done"
            /\ resp'[r].status = 404
            /\ resp'[r].message = "Book not found"
            /\ books' = books
            /\ borrows' = borrows]_vars

\* a request answered 404 when the only book ever created was deleted
C8Witness ==
    \E r \in Req :
        /\ resp[r].status = 404
        /\ hist[1].touched
        /\ \A b \in BookId : ~books[b].exists
        /\ borrows = {}

\* C9: in every durable state available = (copies > 0) for every book,
\* after createBook, updateBook and createBorrow, whatever `available` the
\* client sent.
C9_AvailableIffCopies ==
    \A b \in BookId :
        books[b].exists => (books[b].available = (books[b].copies > 0))

\* C10: for every book that updateBook and deleteBook never touched,
\* copies plus the quantities of the records that reference it equal the
\* copies it was created with.
C10_CopiesPlusBorrowedConstant ==
    \A b \in BookId :
        AsCreated(b) =>
            books[b].copies + SumQuantity(BorrowedOf(b)) = hist[b].copies0

\* C11: whenever createBorrow has sent its response, on every exit path
\* (201, validation failure, 404, insufficient inventory, failed save,
\* insert or commit), the transaction it started is committed or aborted:
\* none is still started or active.
C11_TransactionClosedAtResponse ==
    \A r \in Req :
        resp[r].status # 0 => txn[r].state \notin {"started", "active"}

\* the books a summary has to list: they exist and records reference them
Borrowed == {b \in BookId : books[b].exists /\ BorrowedOf(b) # {}}

\* C12: an answer of getBorrows has exactly one entry for each book that
\* exists and is referenced by a record, with the sum of the quantities of
\* the records of that book and with that book's title and isbn, and no
\* other entry.
C12_SummaryPerBook ==
    summary.calls > 0 =>
        /\ \A b \in Borrowed :
            \E e \in summary.entries :
                /\ e.book = [title |-> books[b].title, isbn |-> books[b].isbn]
                /\ e.totalQuantity = SumQuantity(BorrowedOf(b))
                /\ \A o \in summary.entries : o.book = e.book => o = e
        /\ Cardinality(summary.entries) = Cardinality(Borrowed)

\* C13: when records reference a deleted book, getBorrows still answers
\* 200, has no entry for that book, and has the entry of every other
\* borrowed book with its total.
C13_DeletedBookSkipped ==
    summary.calls > 0 =>
        /\ summary.status = 200
        /\ \A e \in summary.entries : books[e.group].exists
        /\ \A b \in Borrowed :
            \E e \in summary.entries :
                /\ e.group = b
                /\ e.totalQuantity = SumQuantity(BorrowedOf(b))

\* getBorrows answered while records reference a deleted book and another
\* book is borrowed
C13Witness ==
    /\ summary.calls > 0
    /\ \E rec \in borrows : ~books[rec.book].exists
    /\ Borrowed # {}
    /\ summary.entries # {}

C15_RecordsOnlyGrow ==
    [][borrows \subseteq borrows']_vars

\* two records are kept after the book of one of them was deleted and
\* getBorrows answered
C15Witness ==
    /\ Cardinality(borrows) = 2
    /\ \E rec \in borrows : ~books[rec.book].exists
    /\ summary.calls > 0

\* C16: a record becomes durable only for a book that exists at that
\* moment, also when deleteBook runs between the lookup and the commit of
\* the createBorrow.
C16_RecordForExistingBook ==
    [][\A rec \in borrows' \ borrows :
            books[rec.book].exists /\ books'[rec.book].exists]_vars

\* a deleteBook took the book of the only request between its lookup and
\* its save: the request failed and left no record
C16Witness ==
    /\ borrows = {}
    /\ resp[1].message = "Error creating borrow record"
    /\ \A r \in Req \ {1} : pc[r] = "idle"
    /\ hist[1].touched
    /\ \A b \in BookId : ~books[b].exists

\* C17: every stored BorrowRecord has a quantity that is an integer >= 1.
C17_QuantityPositiveInteger ==
    \A rec \in borrows : IsInteger(rec.quantity) /\ rec.quantity >= Unit

\* C18: every stored BorrowRecord has a dueDate strictly after its
\* createdAt.
C18_DueAfterCreated ==
    \A rec \in borrows : rec.dueDate > rec.createdAt

ErrorMessages ==
    {"Validation failed", "Book not found",
     "Requested quantity not available", "Error creating borrow record"}

C22_InvalidInputRejectedFirst ==
    [][\A r \in Req :
        (pc[r] = "idle" /\ pc'[r] # "idle") =>
            \A body \in BodyIn :
                (/\ FindBook(r, body)
                 /\ (\/ body.book = BadId
                     \/ body.quantity < Unit
                     \/ body.dueDate <= now)) =>
                    /\ resp'[r].status = 400
                    /\ resp'[r].message = "Validation failed"
                    /\ pc'[r] = "done"
                    /\ doc'[r] = NoDoc
                    /\ txn'[r].state \in {"started", "aborted"}
                    /\ txn'[r].bookWrite = NoDoc
                    /\ txn'[r].recWrite = {}
                    /\ books' = books
                    /\ borrows' = borrows]_vars

\* a request was refused as invalid while a book was in stock, and nothing
\* was borrowed
C22Witness ==
    \E r \in Req :
        /\ resp[r].message = "Validation failed"
        /\ \E b \in BookId : books[b].exists /\ books[b].copies >= Unit
        /\ borrows = {}

\* C23: deleteBook does not cascade.  Deleting a book that borrow records
\* refer to succeeds (200, the book is gone) and leaves every borrow record
\* and every other book as it was
C23_DeleteNoCascade ==
    [][\A id \in BookId :
        (/\ deleteBook(id)
         /\ books[id].exists
         /\ \E rec \in borrows : rec.book = id) =>
            /\ deleteBookStatus(id) = 200
            /\ ~books'[id].exists
            /\ borrows' = borrows
            /\ \A b \in BookId \ {id} : books'[b] = books[b]]_vars

\* a borrowed book was deleted: its record is still there
C23Witness ==
    \E rec \in borrows :
        /\ ~books[rec.book].exists
        /\ hist[rec.book].touched

\* C24 as stated: updateBook accepts a body that holds only `copies` (the
\* documented {"copies": 50}) for an existing book: it sets copies to the
\* given value and leaves the book's other fields as they were
C24_CopiesOnlyUpdateApplies ==
    [][\A id \in BookId, c \in CopiesIn :
        (/\ updateBook(id, c, "absent", Undefined, Undefined)
         /\ books[id].exists
         /\ c >= 0) =>
            books'[id] = [books[id] EXCEPT !.copies = c]]_vars

\* C25 as stated: getBooks returns at most `limit` books for every limit
\* supplied in the query, and at most 10 books when no limit is supplied
C25_AtMostLimitBooks ==
    listing.status = 200 =>
        /\ listing.limit = "absent" => Len(listing.data) <= 10
        /\ listing.limit = "0" => Len(listing.data) <= 0
        /\ listing.limit = "1" => Len(listing.data) <= 1
        /\ listing.limit = "2" => Len(listing.data) <= 2
        /\ listing.limit = "11" => Len(listing.data) <= 11

\* the spellings of a genre a client sends as filter
GenreNamed ==
    {<<"FICTION", "FICTION">>, <<"fiction", "FICTION">>,
     <<"Science", "SCIENCE">>, <<"fantasy", "FANTASY">>}

\* C26: when the filter names one of the six genres, in any letter case,
\* every book getBooks returns has that genre, no book is returned twice,
\* and a book of that genre is left out only when the limit in force is
\* reached
C26_FilterByGenre ==
    \A named \in GenreNamed :
        (listing.status = 200 /\ listing.filter = named[1]) =>
            LET data == listing.data
                all == {i \in 1..Len(shelf) : shelf[i] = named[2]}
                got == {data[k] : k \in 1..Len(data)}
            IN  /\ got \subseteq all
                /\ Cardinality(got) = Len(data)
                /\ got # all => Len(data) = LimitNum(listing.limit)

\* a lower-case filter cut by the limit: one of two FICTION books was
\* returned while a SCIENCE book is in the catalog
C26Witness ==
    /\ listing.status = 200
    /\ listing.filter = "fiction"
    /\ Len(listing.data) = 1
    /\ Cardinality({i \in 1..Len(shelf) : shelf[i] = "FICTION"}) = 2
    /\ \E i \in 1..Len(shelf) : shelf[i] = "SCIENCE"

\* the two createBorrow handlers of the repository
Variants == {"save", "updateAvailability"}

\* C27: the two createBorrow variants are equivalent.  From every state a
\* behaviour reaches, a step of a request leaves what either variant would
\* leave: the same document to save, and, when the request ends in the catch
\* block (after a validation failure, a failed save, insert or commit), the
\* same response and the same transaction state
C27_VariantsEquivalent ==
    [][\A r \in Req, v \in Variants :
        /\ (pc[r] = "idle" /\ pc'[r] = "done"
                /\ resp'[r].message = "Validation failed") =>
            txn'[r] = CatchBlock([NoTxn EXCEPT !.state = "started"], v)
        /\ (pc[r] = "save" /\ pc'[r] = "insert") =>
            /\ doc'[r] = PreSave(doc[r])
            /\ doc'[r] = UpdateAvailability(doc[r], req[r].quantity)
        /\ (SaveFails(r) \/ InsertFails(r)) =>
            /\ txn'[r] = CatchOutcome(txn[r], resp[r], v).txn
            /\ resp'[r] = CatchOutcome(txn[r], resp[r], v).resp
        /\ CommitFails(r, TRUE) =>
            /\ txn'[r] = CatchOutcome(CommittedTxn(r)[r], resp[r], v).txn
            /\ resp'[r] = CatchOutcome(CommittedTxn(r)[r], resp[r], v).resp
        /\ CommitFails(r, FALSE) =>
            LET t == [ServerAbort(txn[r]) EXCEPT !.state = "commitFailed"]
            IN  /\ txn'[r] = CatchOutcome(t, resp[r], v).txn
                /\ resp'[r] = CatchOutcome(t, resp[r], v).resp]_vars

\* C28: every createBorrow ends with exactly one response, on every path,
\* also when the save, the insert, commitTransaction or abortTransaction
\* fails: a handler that has ended has sent its response
C28_EndsWithResponse ==
    \A r \in Req : pc[r] = "done" => resp[r].status # 0

\* C29: the documented createBorrow ends the session it started on every
\* exit, the not-found, insufficient-inventory, validation-failure and
\* persistence-failure exits as well as the success exit
C29_SessionEndedOnEveryExit ==
    \A r \in Req :
        (variant = "save" /\ pc[r] = "done") => txn[r].ended

\* C30: when a successful createBorrow takes all remaining copies of a book
\* (q = c), the commit that adds the record leaves the book with copies 0
\* and available false; from then on every valid createBorrow that arrives
\* for the book is refused with 'Requested quantity not available' and
\* changes nothing, and only a catalog request (updateBook, deleteBook)
\* changes the book
C30_LastCopyClosesBook ==
    [][\A r \in Req :
        /\ (/\ CommitBorrow(r)
            /\ req[r].quantity = books[req[r].book].copies) =>
                /\ resp'[r].status = 201
                /\ resp'[r].data \in borrows' \ borrows
                /\ resp'[r].data.book = req[r].book
                /\ books'[req[r].book].copies = 0
                /\ ~books'[req[r].book].available
        /\ (pc[r] = "idle" /\ pc'[r] # "idle") =>
            \A body \in BodyIn :
                (/\ FindBook(r, body)
                 /\ BorrowBodyValid(body)
                 /\ books[body.book].exists
                 /\ books[body.book].copies = 0
                 /\ ~books[body.book].available) =>
                    /\ pc'[r] = "done"
                    /\ resp'[r].status = 400
                    /\ resp'[r].message = "Requested quantity not available"
                    /\ books' = books
                    /\ borrows' = borrows
        /\ \A b \in BookId :
            (/\ books[b].exists
             /\ books[b].copies = 0
             /\ ~books[b].available
             /\ books'[b] # books[b]) =>
                ops' = ops + 1]_vars

\* one request borrowed every copy of a book, and a later one was refused
\* for the same book, which nothing else has touched
C30Witness ==
    \E r1, r2 \in Req, b \in BookId :
        /\ r1 < r2
        /\ resp[r1].status = 201
        /\ resp[r1].data.book = b
        /\ resp[r1].data.quantity = hist[b].copies0
        /\ ~hist[b].touched
        /\ books[b].exists
        /\ books[b].copies = 0
        /\ ~books[b].available
        /\ resp[r2].message = "Requested quantity not available"
        /\ Cardinality(BorrowedOf(b)) = 1

\* C31: restocking makes a book borrowable again.  When a book that
\* borrowing has emptied (copies 0, untouched by the catalog since it was
\* created) is given copies n > 0 by an accepted updateBook that does not
\* itself say available: false, a createBorrow of any quantity q <= n on it
\* passes the inventory check
C31_RestockMakesBorrowable ==
    [][\A id \in BookId, c \in CopiesIn, a \in AvailIn \ {"false"} :
        (/\ updateBook(id, c, a, id, id)
         /\ books[id].exists
         /\ books[id].copies = 0
         /\ ~hist[id].touched
         /\ BorrowedOf(id) # {}
         /\ books'[id].copies > 0) =>
            \A q \in QtyIn :
                q <= books'[id].copies => ~Insufficient(books'[id], q)]_vars

\* C32: no lost update between a borrow and a catalog update of the same
\* book.  The document a transaction has written is always the durable
\* copies minus its quantity, a commit takes exactly its quantity from the
\* copies that are durable at the commit, and an updateBook that changes
\* the book of a request at work waits for its uncommitted write and makes
\* its transaction fail at the save: the borrow never writes a value
\* computed from copies it read before an update
C32_NoLostUpdate ==
    /\ [](\A r \in Req :
            (pc[r] = "insert" /\ LockedBy(r, req[r].book)) =>
                txn[r].bookWrite.copies =
                    books[req[r].book].copies - req[r].quantity)
    /\ [][\A r \in Req :
            /\ CommitBorrow(r) =>
                books'[req[r].book].copies =
                    books[req[r].book].copies - req[r].quantity
            /\ (/\ pc[r] \in {"save", "insert"}
                /\ ops' = ops + 1
                /\ books'[req[r].book].exists
                /\ books'[req[r].book] # books[req[r].book]) =>
                    /\ ~LockedBy(r, req[r].book)
                    /\ txn'[r].stale]_vars

\* a catalog update went in between the read and the save of a borrow: the
\* borrow failed, the book has the copies of the update and no record
C32Witness ==
    \E r \in Req, b \in BookId :
        /\ resp[r].message = "Error creating borrow record"
        /\ hist[b].touched
        /\ books[b].exists
        /\ books[b].copies >= Unit
        /\ books[b].available
        /\ borrows = {}

\* C33: concurrent createBorrow requests on different books do not
\* interfere.  While no two requests at work are on the same book, every
\* request is answered as its own book alone decides: a valid request for
\* copies in stock passes the checks, its save is accepted, and its commit
\* answers 201, takes its quantity from its own book, recomputes available,
\* adds its one record and leaves every other book as it was; no request
\* fails in the store
C33_DifferentBooksIndependent ==
    /\ [](\A r \in Req : resp[r].message # "Error creating borrow record")
    /\ [][\A r \in Req :
            /\ (pc[r] = "idle" /\ pc'[r] # "idle") =>
                \A body \in BodyIn :
                    (/\ FindBookApart(r, body)
                     /\ body.book # BadId
                     /\ body.quantity >= Unit
                     /\ body.dueDate > now
                     /\ books[body.book].exists) =>
                        IF /\ books[body.book].available
                           /\ body.quantity <= books[body.book].copies
                        THEN pc'[r] = "save"
                        ELSE /\ resp'[r].status = 400
                             /\ resp'[r].message =
                                    "Requested quantity not available"
            /\ (pc[r] = "save" /\ pc'[r] # "save") => pc'[r] = "insert"
            /\ (pc[r] = "insert" /\ pc'[r] # "insert") =>
                LET b == req[r].book
                    left == books[b].copies - req[r].quantity
                IN  /\ resp'[r].status = 201
                    /\ resp'[r].data.book = b
                    /\ resp'[r].data.quantity = req[r].quantity
                    /\ borrows' = borrows \cup {resp'[r].data}
                    /\ books'[b] = [books[b] EXCEPT !.copies = left,
                                                    !.available = (left > 0)]
                    /\ \A o \in BookId \ {b} : books'[o] = books[o]]_vars

\* one request has committed its borrow of a book while another holds its
\* uncommitted write to the other book
C33Witness ==
    \E r1, r2 \in Req :
        /\ resp[r1].status = 201
        /\ pc[r2] = "insert"
        /\ LockedBy(r2, req[r2].book)
        /\ resp[r1].data.book # req[r2].book
        /\ r2 < r1

\* C34: a successful createBorrow changes only the copies and available of
\* the borrowed book: the commit leaves that book's title and isbn, every
\* other book and every existing record as they were, and adds one record
C34_BorrowChangesOnlyStock ==
    [][\A r \in Req :
        CommitBorrow(r) =>
            LET b == req[r].book
            IN  /\ resp'[r].status = 201
                /\ books'[b] = [books[b] EXCEPT
                                    !.copies = books'[b].copies,
                                    !.available = books'[b].available]
                /\ books'[b].copies = books[b].copies - req[r].quantity
                /\ \A o \in BookId \ {b} : books'[o] = books[o]
                /\ borrows \subseteq borrows'
                /\ borrows' \ borrows = {resp'[r].data}]_vars

\* a borrow committed on a book whose title an update had changed, next to
\* an earlier record
C34Witness ==
    \E r \in Req :
        /\ resp[r].status = 201
        /\ books[resp[r].data.book].title # resp[r].data.book
        /\ hist[resp[r].data.book].touched
        /\ Cardinality(borrows) = 2

\* C35: the read requests getBorrows, getBooks and getBookById change
\* nothing: each of them leaves every book and every record as it was, and
\* leaves the requests at work and their transactions as they were (no
\* lock, no outdated snapshot), so that no createBorrow fails or waits
\* because of a read
C35_ReadsChangeNothing ==
    [][(\/ getBorrows
        \/ \E id \in IdIn : getBookById(id)
        \/ \E filter \in FilterIn, sort \in SortIn, limit \in LimitIn :
                getBooks(filter, sort, limit)) =>
            /\ books' = books
            /\ nextBook' = nextBook
            /\ borrows' = borrows
            /\ txn' = txn
            /\ pc' = pc
            /\ req' = req
            /\ doc' = doc
            /\ resp' = resp]_vars

\* the reads were served while a request held its uncommitted write
C35Witness ==
    \E r \in Req :
        /\ pc[r] = "insert"
        /\ LockedBy(r, req[r].book)
        /\ summary.calls > 0
        /\ listing.status = 200
        /\ ops > 0

\* a request of one of the three handlers for an id that is not well-formed
\* or matches no book changes the catalog
MissingBookChanged ==
    /\ books' # books
    /\ \E id \in IdIn :
        /\ id = BadId \/ ~books[id].exists
        /\ \/ getBookById(id)
           \/ deleteBook(id)
           \/ \E c \in CopiesIn, a \in AvailIn, t \in TextOpt, i \in TextOpt :
                updateBook(id, c, a, t, i)

\* C36 as stated: getBookById, updateBook and deleteBook answer 404 and
\* leave the catalog unchanged when the id is not a well-formed identifier
\* and when it is well-formed but matches no book, whatever else the
\* request carries
C36_MissingBookIs404 ==
    /\ [](\A id \in IdIn :
            (id = BadId \/ ~books[id].exists) =>
                /\ getBookByIdStatus(id) = 404
                /\ deleteBookStatus(id) = 404
                /\ \A c \in CopiesIn, a \in AvailIn,
                      t \in TextOpt, i \in TextOpt :
                        updateBookStatus(id, c, a, t, i) = 404)
    /\ [][~MissingBookChanged]_vars

\* C36: getBookById and deleteBook answer 404 and leave the catalog
\* unchanged for an id that is not well-formed and for a well-formed id of
\* no book.  updateBook answers 404 for an id that is not well-formed
\* whatever the body is; for a well-formed id of no book it answers 404 when
\* the body is valid and 400 when it is not; the catalog is unchanged in
\* each case
C36_MissingBookIs404ValidBody ==
    /\ [](\A id \in IdIn :
            (id = BadId \/ ~books[id].exists) =>
                /\ getBookByIdStatus(id) = 404
                /\ deleteBookStatus(id) = 404
                /\ \A c \in CopiesIn, a \in AvailIn,
                      t \in TextOpt, i \in TextOpt :
                        LET valid == c >= 0 /\ t # Undefined /\ i # Undefined
                        IN  updateBookStatus(id, c, a, t, i) =
                                IF id = BadId \/ valid THEN 404 ELSE 400)
    /\ [][~MissingBookChanged]_vars

\* requests were served on a catalog with a missing book, for which each of
\* the three handlers answers 404
C36Witness ==
    \E id \in BookId :
        /\ ops = MaxOps
        /\ ~books[id].exists
        /\ getBookByIdStatus(id) = 404
        /\ deleteBookStatus(id) = 404
        /\ updateBookStatus(id, 2 * Unit, "absent", id, id) = 404
        /\ updateBookStatus(BadId, -1, "absent", Undefined, Undefined) = 404
        /\ \E o \in BookId : books[o].exists /\ ~hist[o].touched

\* C37: Book.updateAvailability(quantity) ignores its quantity.  Whenever a
\* request saves its book through it, the saved document has the copies it
\* had and available = (copies > 0), which is what the pre-save hook gives;
\* any other quantity gives the same document, and so does a second call
C37_UpdateAvailabilityIgnoresQuantity ==
    [][\A r \in Req :
        (/\ SaveByUpdateAvailability(r)
         /\ pc'[r] = "insert") =>
            LET d == doc[r]
                u == doc'[r]
            IN  /\ d.copies >= 0
                /\ u.copies = d.copies
                /\ u.available = (d.copies > 0)
                /\ u = PreSave(d)
                /\ txn'[r].bookWrite = u
                /\ \A q \in QtyWide :
                    /\ UpdateAvailability(d, q) = u
                    /\ UpdateAvailability(u, q) = u]_vars

\* updateAvailability saved a book whose last copies the request takes, and
\* one that keeps copies
C37Witness ==
    \E r1, r2 \in Req :
        /\ variant = "updateAvailability"
        /\ resp[r1].status = 201
        /\ books[resp[r1].data.book].copies = 0
        /\ ~books[resp[r1].data.book].available
        /\ pc[r2] = "insert"
        /\ txn[r2].bookWrite.copies > 0
        /\ txn[r2].bookWrite.available

\* C38: the server listens only while the database connection has been
\* established, a request is handled only by a listening server, and once
\* the connection attempt has failed (or the process has left for want of
\* MONGO_URI) the server does not start to listen in any later step.
C38_ListensOnlyAfterConnect ==
    /\ [](/\ server.listening => server.db = "connected"
          /\ \A r \in Req : pc[r] # "idle" => server.listening)
    /\ [][server.db \in {"failed", "exited"}
            => server'.db = server.db /\ ~server'.listening]_vars

\* the connection was established, the server listens and has answered a
\* borrow request with 201
C38Witness ==
    /\ server.db = "connected"
    /\ server.listening
    /\ \E r \in Req : pc[r] = "done" /\ resp[r].status = 201

====
